---- MODULE Spec2Model ----
(***************************************************************************)
(* Model of the project scaffolding in src/src/project_configs.py and      *)
(* src/src/__init__.py: the ProjectPaths and LoggerConfiguration settings  *)
(* classes, LoggerConfiguration.generate, and the package initialisation   *)
(* that resolves the paths, applies the logging configuration and binds    *)
(* the process-wide logger.                                                *)
(*                                                                         *)
(* Paths are pathlib part sequences (<<"/", "proj", "logs">>), text is     *)
(* TLA+ strings, an optional value is <<>> (None) or <<v>>.                *)
(***************************************************************************)
EXTENDS Integers, Sequences, FiniteSets, TLC

VARIABLES
    fs,             \* the directories that exist on disk
    files,          \* the log files the logging subsystem has opened
    environ,        \* os.environ: settings field name -> text
    cwd,            \* the process's working directory
    module_file,    \* __file__ of project_configs.py
    clock,          \* the wall clock datetime.now() reads
    class_defaults, \* the field defaults of ProjectPaths, set by its class body
    pc,             \* position in the body of src/__init__.py
    sys_modules,    \* whether the package is cached in sys.modules
    imports,        \* import statements of the package executed so far
    project_paths,  \* the ProjectPaths object bound (module global project_paths)
    log_config,     \* module global log_config
    logging,        \* the logging subsystem's global state
    logger,         \* module global logger (the name of the handle)
    instances,      \* the ProjectPaths objects made by calling the class, as made
    assigns,        \* attribute assignments made so far
    attempt,        \* the last call of LoggerConfiguration(...) and its outcome
    last_call,      \* the last call of generate on log_config
    prev_call       \* the call of generate before that one

vars == <<fs, files, environ, cwd, module_file, clock, class_defaults, pc,
          sys_modules, imports, project_paths, log_config, logging, logger,
          instances, assigns, attempt, last_call, prev_call>>

None == <<>>
Some(v) == <<v>>

(***************************************************************************)
(* Bounds of the model.                                                    *)
(***************************************************************************)
MaxImports == 2
MaxInstances == 2
MaxAssigns == 1

(***************************************************************************)
(* pathlib                                                                 *)
(***************************************************************************)
\* Path(text): the parts of the path texts the model uses.
Path(s) ==
    CASE s = "/proj" -> <<"/", "proj">>
      [] s = "/alt" -> <<"/", "alt">>
      [] s = "/alt/logs" -> <<"/", "alt", "logs">>
      [] s = "/nowhere" -> <<"/", "nowhere">>
      [] s = "/proj/src/project_configs.py" -> <<"/", "proj", "src", "project_configs.py">>
      [] s = "src/project_configs.py" -> <<"src", "project_configs.py">>
      [] OTHER -> <<s>>

is_absolute(p) == Len(p) > 0 /\ p[1] = "/"

\* Path.resolve(): a relative path is taken from the working directory.
resolve(p, wd) == IF is_absolute(p) THEN p ELSE wd \o p

\* Path.parents[n]: the path without its last n + 1 parts.
parents(p, n) == SubSeq(p, 1, Len(p) - (n + 1))

\* Path.joinpath(segment) and the / operator with a slash-free segment.
joinpath(p, seg) == Append(p, seg)

RECURSIVE JoinParts(_)
JoinParts(ps) ==
    IF Len(ps) = 0 THEN ""
    ELSE IF Len(ps) = 1 THEN ps[1]
    ELSE ps[1] \o "/" \o JoinParts(Tail(ps))

\* Path.as_posix(): the parts joined by "/".
as_posix(p) == IF is_absolute(p) THEN "/" \o JoinParts(Tail(p)) ELSE JoinParts(p)

\* Path.is_dir() against the model's filesystem.
is_dir(p) == p \in fs

(***************************************************************************)
(* ProjectPaths                                                            *)
(***************************************************************************)
PathFields ==
    {"root", "logger_folder", "data_folder", "raw_data_folder",
     "external_data_folder", "processed_data_folder", "report_folder",
     "figures_output_folder", "tables_output_folder"}

\* The class body: every default is computed once, when the class is defined,
\* from the class-body local `root`.
ProjectPathsClassBody(file, wd) ==
    LET root == parents(resolve(file, wd), 1)
        logger_folder == joinpath(root, "logs")
        data_folder == joinpath(root, "data")
        raw_data_folder == joinpath(data_folder, "raw")
        external_data_folder == joinpath(data_folder, "external")
        processed_data_folder == joinpath(data_folder, "processed")
        report_folder == joinpath(root, "report")
        figures_output_folder == joinpath(report_folder, "figures")
        tables_output_folder == joinpath(report_folder, "tables")
    IN  [root |-> root,
         logger_folder |-> logger_folder,
         data_folder |-> data_folder,
         raw_data_folder |-> raw_data_folder,
         external_data_folder |-> external_data_folder,
         processed_data_folder |-> processed_data_folder,
         report_folder |-> report_folder,
         figures_output_folder |-> figures_output_folder,
         tables_output_folder |-> tables_output_folder]

\* BaseSettings precedence: explicit value > environment > default.
FieldSource(kwargs, env, f) ==
    IF f \in DOMAIN kwargs THEN "init"
    ELSE IF f \in DOMAIN env THEN "env"
    ELSE "default"

\* The value a ProjectPaths field is given before validation.
PathFieldValue(kwargs, env, defaults, f) ==
    CASE FieldSource(kwargs, env, f) = "init" -> kwargs[f]
      [] FieldSource(kwargs, env, f) = "env" -> Path(env[f])
      [] OTHER -> defaults[f]

\* DirectoryPath: the value must be an existing directory.
DirectoryPath(p) == is_dir(p)

\* BaseSettings validates defaults as well as supplied values.
ValidateDefault_Off == FALSE
ValidateDefault == TRUE

PathFieldValid(kwargs, env, defaults, f) ==
    \/ FieldSource(kwargs, env, f) = "default" /\ ~ValidateDefault
    \/ DirectoryPath(PathFieldValue(kwargs, env, defaults, f))

\* ProjectPaths(**kwargs): the new object, or None when validation fails.
NewProjectPaths(kwargs, env, defaults) ==
    IF \A f \in PathFields : PathFieldValid(kwargs, env, defaults, f)
    THEN Some([f \in PathFields |-> PathFieldValue(kwargs, env, defaults, f)])
    ELSE None

(***************************************************************************)
(* LoggerConfiguration                                                     *)
(***************************************************************************)
DefaultMaxBytes == 5000000
DefaultBackupCount == 5

LoggerDefaults ==
    [log_level |-> "INFO",
     log_name |-> "my_statistical_project",
     log_file_name |-> "my_statistical_project.log",
     max_bytes |-> DefaultMaxBytes,
     backup_count |-> DefaultBackupCount]

StrFields == {"log_level", "log_name", "log_file_name"}
IntFields == {"max_bytes", "backup_count"}

\* int(text) as the settings source decodes an environment value; None when
\* the text is no integer.
ParseInt(s) ==
    CASE s = "-1" -> Some(-1)
      [] s = "0" -> Some(0)
      [] s = "1" -> Some(1)
      [] s = "7" -> Some(7)
      [] OTHER -> None

\* The value a LoggerConfiguration field is given before validation, as an
\* optional value: None when an environment text does not decode.
LoggerFieldValue(kwargs, env, f) ==
    CASE FieldSource(kwargs, env, f) = "init" -> Some(kwargs[f])
      [] FieldSource(kwargs, env, f) = "env" ->
            IF f \in IntFields THEN ParseInt(env[f]) ELSE Some(env[f])
      [] OTHER -> Some(LoggerDefaults[f])

\* PositiveInt: an integer greater than zero.
PositiveInt_AllowsZero(n) == n >= 0
PositiveInt(n) == n > 0

LoggerFieldValid(kwargs, env, f) ==
    /\ LoggerFieldValue(kwargs, env, f) # None
    /\ f \in IntFields => PositiveInt(LoggerFieldValue(kwargs, env, f)[1])

\* LoggerConfiguration(**kwargs): the new object, or None when validation fails.
NewLoggerConfiguration(kwargs, env) ==
    IF \A f \in StrFields \cup IntFields : LoggerFieldValid(kwargs, env, f)
    THEN Some([f \in StrFields \cup IntFields |-> LoggerFieldValue(kwargs, env, f)[1]])
    ELSE None

(***************************************************************************)
(* datetime.now().strftime("%Y%m%d_%H%M%S")                                *)
(***************************************************************************)
Digit(d) ==
    CASE d = 0 -> "0" [] d = 1 -> "1" [] d = 2 -> "2" [] d = 3 -> "3"
      [] d = 4 -> "4" [] d = 5 -> "5" [] d = 6 -> "6" [] d = 7 -> "7"
      [] d = 8 -> "8" [] d = 9 -> "9"

\* The decimal text of a natural number.
RECURSIVE str(_)
str(n) == IF n < 10 THEN Digit(n) ELSE str(n \div 10) \o Digit(n % 10)

\* Zero padding on the left up to a width.
RECURSIVE zfill(_, _)
zfill(s, width) == IF Len(s) >= width THEN s ELSE zfill("0" \o s, width)

\* A strftime directive with a field width: %Y is 4 wide, the others 2.
Directive_Unpadded(n, width) == str(n)
Directive(n, width) == zfill(str(n), width)

strftime(now) ==
    Directive(now.year, 4) \o Directive(now.month, 2) \o Directive(now.day, 2)
    \o "_"
    \o Directive(now.hour, 2) \o Directive(now.minute, 2) \o Directive(now.second, 2)

(***************************************************************************)
(* LoggerConfiguration.generate                                            *)
(***************************************************************************)
\* The name of the log file: the timestamp, an underscore, the base name.
LogFileName_NoTimestamp(self, now) == self.log_file_name
LogFileName(self, now) == strftime(now) \o "_" \o self.log_file_name

\* The handlers the root logger is routed to.
RootHandlers_ConsoleOnly == <<"console">>
RootHandlers == <<"console", "file">>

\* The rule pinned on a third-party sub-logger.
SubLoggerRule_Propagating == [level |-> "WARNING", handlers |-> <<"console">>, propagate |-> TRUE]
SubLoggerRule == [level |-> "WARNING", handlers |-> <<"console">>, propagate |-> FALSE]

generate(self, log_dir, now) ==
    LET log_file_name == LogFileName(self, now)
        log_path == joinpath(log_dir, log_file_name)
    IN  [version |-> 1,
         disable_existing_loggers |-> FALSE,
         formatters |->
            [standard |->
                [format |-> "[%(asctime)s] %(levelname)s - %(name)s - %(message)s",
                 datefmt |-> "%Y-%m-%d %H:%M:%S"]],
         handlers |->
            [console |->
                [class |-> "logging.StreamHandler",
                 level |-> self.log_level,
                 formatter |-> "standard"],
             file |->
                [class |-> "logging.handlers.RotatingFileHandler",
                 level |-> self.log_level,
                 formatter |-> "standard",
                 filename |-> as_posix(log_path),
                 maxBytes |-> self.max_bytes,
                 backupCount |-> self.backup_count,
                 encoding |-> "utf8"]],
         root |-> [level |-> self.log_level, handlers |-> RootHandlers],
         loggers |-> [matplotlib |-> SubLoggerRule, urllib3 |-> SubLoggerRule]]

(***************************************************************************)
(* The logging subsystem: logging.config.dictConfig and logging.getLogger  *)
(***************************************************************************)
ValidLevels ==
    {"CRITICAL", "FATAL", "ERROR", "WARN", "WARNING", "INFO", "DEBUG", "NOTSET"}

Unconfigured == [state |-> "Unconfigured", applied |-> 0, config |-> None]

\* dictConfig builds the handlers in name order and raises on a level name
\* the logging module does not know, before the file handler opens its file.
dictConfigAccepts(config) ==
    /\ config.handlers.console.level \in ValidLevels
    /\ config.handlers.file.level \in ValidLevels
    /\ config.root.level \in ValidLevels

\* The global state after dictConfig(config) has succeeded.
dictConfig(config) ==
    [state |-> "Configured", applied |-> logging.applied + 1, config |-> Some(config)]

(***************************************************************************)
(* The filesystem and the inputs of a run                                  *)
(***************************************************************************)
ProjRoot == <<"/", "proj">>
AltRoot == <<"/", "alt">>

RelDirs ==
    {<<>>, <<"logs">>, <<"data">>, <<"data", "raw">>, <<"data", "external">>,
     <<"data", "processed">>, <<"report">>, <<"report", "figures">>,
     <<"report", "tables">>}

Tree(r) == {r \o d : d \in RelDirs}

\* A set of directories under r in which every directory's parent exists.
ParentClosed(S, r) == \A p \in S : p = r \/ parents(p, 0) \in S

\* The project root (where the module's file lives) and the whole tree under
\* the other root always exist; under the project root every parent-closed
\* choice of the layout's directories may.
FsStates ==
    {S \cup Tree(AltRoot) : S \in {T \in SUBSET Tree(ProjRoot) :
                                      ProjRoot \in T /\ ParentClosed(T, ProjRoot)}}

\* The filesystems with at most one directory of the layout missing.
FsPaths == {S \in FsStates : Cardinality(Tree(ProjRoot) \ S) <= 1}

NoEnv == [k \in {} |-> ""]

\* os.environ with at most one settings variable set.
EnvChoices ==
    {NoEnv}
    \cup {f :> v : f \in PathFields, v \in {"/alt", "/nowhere"}}
    \cup {f :> v : f \in IntFields, v \in {"-1", "0", "7", "abc"}}
    \cup {"log_level" :> v : v \in {"DEBUG", "BOGUS"}}
    \cup {"log_name" :> "custom", "log_file_name" :> "app.log"}

ClockValues ==
    {[year |-> 2024, month |-> 1, day |-> 2, hour |-> 3, minute |-> 4,
      second |-> 5, microsecond |-> 0],
     [year |-> 2024, month |-> 1, day |-> 2, hour |-> 3, minute |-> 4,
      second |-> 5, microsecond |-> 500000],
     [year |-> 2024, month |-> 1, day |-> 2, hour |-> 3, minute |-> 4,
      second |-> 6, microsecond |-> 0],
     [year |-> 1999, month |-> 12, day |-> 31, hour |-> 23, minute |-> 59,
      second |-> 59, microsecond |-> 0],
     [year |-> 2024, month |-> 10, day |-> 20, hour |-> 13, minute |-> 40,
      second |-> 50, microsecond |-> 0]}

\* The wall clock moves to another reading (it may also be set back).
Tick ==
    /\ clock' \in ClockValues \ {clock}
    /\ UNCHANGED <<fs, files, environ, cwd, module_file, class_defaults, pc,
                   sys_modules, imports, project_paths, log_config, logging,
                   logger, instances, assigns, attempt, last_call, prev_call>>

(***************************************************************************)
(* src/__init__.py: the body of the package, one statement per step        *)
(***************************************************************************)
\* An import statement finds the package in sys.modules once its body has run
\* to the end.
ModuleCached_Never == FALSE
ModuleCached == sys_modules

\* `import src`: a cached package is returned as it is, otherwise its body
\* starts to run.
Import ==
    /\ pc \in {"idle", "failed", "done"}
    /\ imports < MaxImports
    /\ imports' = imports + 1
    /\ pc' = IF ModuleCached THEN pc ELSE "line4"
    /\ UNCHANGED <<fs, files, environ, cwd, module_file, clock, class_defaults,
                   sys_modules, project_paths, log_config, logging, logger,
                   instances, assigns, attempt, last_call, prev_call>>

\* Line 4: project_configs is loaded; its class bodies run the first time only.
Line4 ==
    /\ pc = "line4"
    /\ class_defaults' =
          IF class_defaults = None
          THEN Some(ProjectPathsClassBody(module_file, cwd))
          ELSE class_defaults
    /\ pc' = "line7"
    /\ UNCHANGED <<fs, files, environ, cwd, module_file, clock, sys_modules,
                   imports, project_paths, log_config, logging, logger,
                   instances, assigns, attempt, last_call, prev_call>>

\* An exception leaves the body: the package is dropped with its globals.
Abort ==
    /\ pc' = "failed"
    /\ sys_modules' = FALSE
    /\ project_paths' = None
    /\ log_config' = None
    /\ logger' = None

\* Line 7: project_paths = ProjectPaths()
Line7 ==
    /\ pc = "line7"
    /\ LET made == NewProjectPaths(NoEnv, environ, class_defaults[1])
       IN  IF made # None
           THEN /\ project_paths' = made
                /\ pc' = "line10"
                /\ UNCHANGED <<sys_modules, log_config, logger>>
           ELSE Abort
    /\ UNCHANGED <<fs, files, environ, cwd, module_file, clock, class_defaults,
                   imports, logging, instances, assigns, attempt, last_call,
                   prev_call>>

\* Line 10: log_config = LoggerConfiguration()
Line10 ==
    /\ pc = "line10"
    /\ LET made == NewLoggerConfiguration(NoEnv, environ)
       IN  IF made # None
           THEN /\ log_config' = made
                /\ pc' = "line11"
                /\ UNCHANGED <<sys_modules, project_paths, logger>>
           ELSE Abort
    /\ UNCHANGED <<fs, files, environ, cwd, module_file, clock, class_defaults,
                   imports, logging, instances, assigns, attempt, last_call,
                   prev_call>>

\* Line 11: dictConfig(log_config.generate(project_paths.logger_folder))
Line11 ==
    /\ pc = "line11"
    /\ LET config == generate(log_config[1], project_paths[1].logger_folder, clock)
       IN  IF dictConfigAccepts(config)
           THEN /\ logging' = dictConfig(config)
                /\ files' = files \cup {config.handlers.file.filename}
                /\ pc' = "line14"
                /\ UNCHANGED <<sys_modules, project_paths, log_config, logger>>
           ELSE /\ Abort
                /\ UNCHANGED <<logging, files>>
    /\ UNCHANGED <<fs, environ, cwd, module_file, clock, class_defaults, imports,
                   instances, assigns, attempt, last_call, prev_call>>

\* Line 14: logger = logging.getLogger(log_config.log_name); the body ends and
\* the package stays in sys.modules.
Line14 ==
    /\ pc = "line14"
    /\ logger' = Some(log_config[1].log_name)
    /\ pc' = "done"
    /\ sys_modules' = TRUE
    /\ UNCHANGED <<fs, files, environ, cwd, module_file, clock, class_defaults,
                   imports, project_paths, log_config, logging, instances,
                   assigns, attempt, last_call, prev_call>>

Init ==
    /\ fs \in FsStates
    /\ files = {}
    /\ environ \in EnvChoices
    /\ cwd = ProjRoot
    /\ module_file = Path("/proj/src/project_configs.py")
    /\ clock \in ClockValues
    /\ class_defaults = None
    /\ pc = "idle"
    /\ sys_modules = FALSE
    /\ imports = 0
    /\ project_paths = None
    /\ log_config = None
    /\ logging = Unconfigured
    /\ logger = None
    /\ instances = <<>>
    /\ assigns = 0
    /\ attempt = None
    /\ last_call = None
    /\ prev_call = None

Next ==
    \/ Import
    \/ Line4
    \/ Line7
    \/ Line10
    \/ Line11
    \/ Line14
    \/ Tick

Spec == Init /\ [][Next]_vars

(***************************************************************************)
(* ProjectPaths used directly: the class is defined, objects are made with *)
(* or without an explicit root, and their fields are assigned to.          *)
(***************************************************************************)
\* project_configs.py is loaded: the class body of ProjectPaths runs once.
LoadProjectConfigs ==
    /\ class_defaults = None
    /\ class_defaults' = Some(ProjectPathsClassBody(module_file, cwd))
    /\ UNCHANGED <<fs, files, environ, cwd, module_file, clock, pc, sys_modules,
                   imports, project_paths, log_config, logging, logger,
                   instances, assigns, attempt, last_call, prev_call>>

\* os.chdir by the caller.
Chdir ==
    /\ cwd' \in {ProjRoot, AltRoot} \ {cwd}
    /\ UNCHANGED <<fs, files, environ, module_file, clock, class_defaults, pc,
                   sys_modules, imports, project_paths, log_config, logging,
                   logger, instances, assigns, attempt, last_call, prev_call>>

\* The defaults a construction reads: the class attributes, as the class body
\* left them.
ProjectPathsDefaults_PerCall == ProjectPathsClassBody(module_file, cwd)
ProjectPathsDefaults == class_defaults[1]

KwargsPaths == {NoEnv, "root" :> ProjRoot, "root" :> AltRoot}

\* p = ProjectPaths(**kwargs): on success the new object is recorded with its
\* fields as validated and bound by the caller; a validation error leaves the
\* caller's binding as it was.
ConstructProjectPaths(kwargs) ==
    /\ class_defaults # None
    /\ Len(instances) < MaxInstances
    /\ LET made == NewProjectPaths(kwargs, environ, ProjectPathsDefaults)
       IN  /\ attempt' = Some([class |-> "ProjectPaths", kwargs |-> kwargs,
                               result |-> made])
           /\ instances' =
                 IF made # None
                 THEN Append(instances, [kwargs |-> kwargs, made |-> made[1]])
                 ELSE instances
           /\ project_paths' = IF made # None THEN made ELSE project_paths
    /\ UNCHANGED <<fs, files, environ, cwd, module_file, clock, class_defaults,
                   pc, sys_modules, imports, log_config, logging, logger,
                   assigns, last_call, prev_call>>

\* obj.field = value: the class is not frozen and does not validate
\* assignments, so the value is stored as given.
setattr(obj, f, v) == [obj EXCEPT ![f] = v]

\* p.field = value on the object the caller holds.
AssignField(f, v) ==
    /\ project_paths # None
    /\ assigns < MaxAssigns
    /\ assigns' = assigns + 1
    /\ project_paths' = Some(setattr(project_paths[1], f, v))
    /\ UNCHANGED <<fs, files, environ, cwd, module_file, clock, class_defaults,
                   pc, sys_modules, imports, log_config, logging, logger,
                   instances, attempt, last_call, prev_call>>

InitPaths ==
    /\ fs \in FsPaths
    /\ files = {}
    /\ environ \in {NoEnv, "root" :> "/alt", "root" :> "/nowhere",
                    "logger_folder" :> "/alt/logs"}
    /\ cwd \in {ProjRoot, AltRoot}
    /\ module_file \in {Path("/proj/src/project_configs.py"),
                        Path("src/project_configs.py")}
    /\ clock \in {CHOOSE c \in ClockValues : TRUE}
    /\ class_defaults = None
    /\ pc = "idle"
    /\ sys_modules = FALSE
    /\ imports = 0
    /\ project_paths = None
    /\ log_config = None
    /\ logging = Unconfigured
    /\ logger = None
    /\ instances = <<>>
    /\ assigns = 0
    /\ attempt = None
    /\ last_call = None
    /\ prev_call = None

NextPaths ==
    \/ LoadProjectConfigs
    \/ Chdir
    \/ \E kwargs \in KwargsPaths : ConstructProjectPaths(kwargs)
    \/ \E f \in PathFields : AssignField(f, Path("/nowhere"))

SpecPaths == InitPaths /\ [][NextPaths]_vars

(***************************************************************************)
(* LoggerConfiguration used directly: an object is made from explicit      *)
(* values and the environment, and generate is called on it.               *)
(***************************************************************************)
Restrict(f, K) == [k \in K |-> f[k]]

KwargsLogger ==
    {Restrict([log_level |-> "DEBUG", log_file_name |-> "app.log",
               max_bytes |-> m, backup_count |-> b], K) :
        m \in {-1, 0, 1}, b \in {0, 1},
        K \in SUBSET {"log_level", "log_file_name", "max_bytes", "backup_count"}}

LogDirs == {joinpath(ProjRoot, "logs"), joinpath(AltRoot, "logs")}

\* log_config = LoggerConfiguration(**kwargs)
ConstructLoggerConfiguration(kwargs) ==
    /\ log_config = None
    /\ LET made == NewLoggerConfiguration(kwargs, environ)
       IN  /\ attempt' = Some([class |-> "LoggerConfiguration", kwargs |-> kwargs,
                               result |-> made])
           /\ log_config' = made
    /\ UNCHANGED <<fs, files, environ, cwd, module_file, clock, class_defaults,
                   pc, sys_modules, imports, project_paths, logging, logger,
                   instances, assigns, last_call, prev_call>>

\* log_config.generate(log_dir): the clock is read, the mapping is returned,
\* the object is left as it was. Time has passed since the call before, so the
\* clock reads another value than it did then.
CallGenerate(log_dir) ==
    /\ log_config # None
    /\ last_call # None => last_call[1].now # clock
    /\ prev_call' = last_call
    /\ last_call' = Some([self |-> log_config[1], log_dir |-> log_dir,
                          now |-> clock,
                          result |-> generate(log_config[1], log_dir, clock)])
    /\ UNCHANGED <<fs, files, environ, cwd, module_file, clock, class_defaults,
                   pc, sys_modules, imports, project_paths, log_config, logging,
                   logger, instances, assigns, attempt>>

InitLogger ==
    /\ fs = Tree(ProjRoot) \cup Tree(AltRoot)
    /\ files = {}
    /\ environ \in {NoEnv, "max_bytes" :> "0", "max_bytes" :> "7",
                    "max_bytes" :> "abc", "backup_count" :> "-1"}
    /\ cwd = ProjRoot
    /\ module_file = Path("/proj/src/project_configs.py")
    /\ clock \in ClockValues
    /\ class_defaults = None
    /\ pc = "idle"
    /\ sys_modules = FALSE
    /\ imports = 0
    /\ project_paths = None
    /\ log_config = None
    /\ logging = Unconfigured
    /\ logger = None
    /\ instances = <<>>
    /\ assigns = 0
    /\ attempt = None
    /\ last_call = None
    /\ prev_call = None

NextLogger ==
    \/ \E kwargs \in KwargsLogger : ConstructLoggerConfiguration(kwargs)
    \/ \E log_dir \in LogDirs : CallGenerate(log_dir)
    \/ Tick

SpecLogger == InitLogger /\ [][NextLogger]_vars

(***************************************************************************)
(* Properties                                                              *)
(***************************************************************************)
\* The layout of the spec: each field's fixed segment under the project root.
Segment(f) ==
    CASE f = "root" -> <<>>
      [] f = "logger_folder" -> <<"logs">>
      [] f = "data_folder" -> <<"data">>
      [] f = "raw_data_folder" -> <<"data", "raw">>
      [] f = "external_data_folder" -> <<"data", "external">>
      [] f = "processed_data_folder" -> <<"data", "processed">>
      [] f = "report_folder" -> <<"report">>
      [] f = "figures_output_folder" -> <<"report", "figures">>
      [] f = "tables_output_folder" -> <<"report", "tables">>

\* The directory startup requires for a field: the layout's directory under
\* the root of the module's location, or the one the environment names for it.
RequiredDir(f) ==
    IF f \in DOMAIN environ THEN Path(environ[f]) ELSE ProjRoot \o Segment(f)

RequiredDirMissing == \E f \in PathFields : RequiredDir(f) \notin fs

\* C1: whenever a required directory (root, logs, data, data/raw,
\* data/external, data/processed, report, report/figures, report/tables) does
\* not exist, line 7 of the package body fails and startup leaves no partial
\* state: no ProjectPaths is bound, the body never gets past line 7, the
\* logging subsystem stays Unconfigured, no log file is opened, and no step
\* of the program creates (or removes) a directory.
C1_MissingDirectoryAbortsStartup ==
    /\ [](RequiredDirMissing =>
            /\ pc \in {"idle", "line4", "line7", "failed"}
            /\ project_paths = None
            /\ log_config = None
            /\ logger = None
            /\ logging = Unconfigured
            /\ files = {})
    /\ [][RequiredDirMissing /\ pc = "line7" /\ pc' # pc => pc' = "failed"]_vars
    /\ [][fs' = fs]_vars

C1_Witness ==
    /\ pc = "failed"
    /\ environ = NoEnv
    /\ joinpath(joinpath(ProjRoot, "report"), "tables") \notin fs
    /\ Cardinality(Tree(ProjRoot) \ fs) = 1

\* C8: the logging lifecycle is one-way, Unconfigured -> Configured: the
\* configuration is applied at most once, only by line 11 with project_paths
\* and log_config bound, the state never returns to Unconfigured, an import
\* of the cached package changes neither the logging state nor the logger,
\* and the logger is bound once, after the configuration was applied, under
\* the name log_config.log_name.
C8_OneWayLoggingLifecycle ==
    /\ [](logging.applied <= 1)
    /\ [](logging.state = "Configured" <=> logging.applied = 1)
    /\ [][logging.state = "Configured" => logging'.state = "Configured"]_vars
    /\ [][logging' # logging =>
            /\ pc = "line11"
            /\ project_paths # None
            /\ log_config # None
            /\ logging.state = "Unconfigured"
            /\ logging'.state = "Configured"]_vars
    /\ [][pc = "done" => logging' = logging /\ logger' = logger /\ files' = files]_vars
    /\ [](logger # None =>
            /\ logging.state = "Configured"
            /\ log_config # None
            /\ logger = Some(log_config[1].log_name))
    /\ [][logger' # logger => logger = None /\ logging.state = "Configured"]_vars
    /\ [](pc = "done" => logger # None)

C8_Witness ==
    /\ pc = "done"
    /\ imports = 2
    /\ logging.applied = 1
    /\ logger = Some("custom")

\* C2: a LoggerConfiguration exists only with max_bytes >= 1 and
\* backup_count >= 1; a call that gives either field an integer that is zero
\* or negative (explicitly, or through the environment) is rejected and
\* produces no object.
C2_NonPositiveRejected ==
    (attempt # None /\ attempt[1].class = "LoggerConfiguration") =>
        LET a == attempt[1]
            given(f) == LoggerFieldValue(a.kwargs, environ, f)
        IN  /\ a.result # None =>
                /\ a.result[1].max_bytes >= 1
                /\ a.result[1].backup_count >= 1
                /\ log_config = a.result
            /\ (\E f \in IntFields : given(f) # None /\ given(f)[1] <= 0) =>
                /\ a.result = None
                /\ log_config = None
            /\ (\E f \in IntFields : f \in DOMAIN a.kwargs /\ a.kwargs[f] <= 0) =>
                a.result = None

C2_Witness ==
    /\ attempt # None
    /\ attempt[1].class = "LoggerConfiguration"
    /\ "max_bytes" \in DOMAIN attempt[1].kwargs
    /\ attempt[1].kwargs["max_bytes"] = 0
    /\ "backup_count" \notin DOMAIN attempt[1].kwargs
    /\ attempt[1].result = None
    /\ log_config = None

Range(seq) == {seq[i] : i \in DOMAIN seq}

\* C3: the mapping generate returns has exactly the handlers console and
\* file, and its root entry lists exactly those two.
C3_TwoHandlersRootToBoth ==
    last_call # None =>
        LET r == last_call[1].result
        IN  /\ DOMAIN r.handlers = {"console", "file"}
            /\ Len(r.root.handlers) = 2
            /\ Range(r.root.handlers) = {"console", "file"}

C3_Witness ==
    /\ last_call # None
    /\ last_call[1].log_dir = joinpath(AltRoot, "logs")
    /\ last_call[1].self.log_level = "DEBUG"
    /\ last_call[1].self.backup_count = 1

\* A number as exactly two, and as exactly four, decimal digits.
TwoDigits(n) == Digit((n \div 10) % 10) \o Digit(n % 10)
FourDigits(n) == TwoDigits(n \div 100) \o TwoDigits(n % 100)

\* YYYYMMDD_HHMMSS of a clock reading.
Stamp(now) ==
    FourDigits(now.year) \o TwoDigits(now.month) \o TwoDigits(now.day) \o "_"
    \o TwoDigits(now.hour) \o TwoDigits(now.minute) \o TwoDigits(now.second)

\* C4: the file handler's filename is the log directory joined with
\* <YYYYMMDD_HHMMSS>_<log_file_name>, the prefix being the clock read during
\* the call, zero-padded to 8 date and 6 time digits; app.log at
\* 2024-01-02 03:04:05 gives 20240102_030405_app.log.
C4_TimestampedFileName ==
    last_call # None =>
        LET c == last_call[1]
            name == c.result.handlers.file.filename
        IN  /\ name = as_posix(c.log_dir) \o "/" \o Stamp(c.now) \o "_" \o c.self.log_file_name
            /\ Len(name) = Len(as_posix(c.log_dir)) + 1 + 8 + 1 + 6 + 1 + Len(c.self.log_file_name)
            /\ (/\ c.self.log_file_name = "app.log"
                /\ c.now.year = 2024 /\ c.now.month = 1 /\ c.now.day = 2
                /\ c.now.hour = 3 /\ c.now.minute = 4 /\ c.now.second = 5) =>
                    name = as_posix(c.log_dir) \o "/20240102_030405_app.log"

C4_Witness ==
    /\ last_call # None
    /\ last_call[1].self.log_file_name = "app.log"
    /\ last_call[1].now.second = 5
    /\ last_call[1].now.microsecond = 0
    /\ last_call[1].result.handlers.file.filename = "/proj/logs/20240102_030405_app.log"

\* C5: whatever the log level, the mapping has the sub-logger entries
\* matplotlib and urllib3, each at WARNING, routed to console only, with
\* propagate false.
C5_SubLoggersPinned ==
    last_call # None =>
        LET r == last_call[1].result
        IN  /\ {"matplotlib", "urllib3"} \subseteq DOMAIN r.loggers
            /\ \A n \in {"matplotlib", "urllib3"} :
                /\ r.loggers[n].level = "WARNING"
                /\ r.loggers[n].handlers = <<"console">>
                /\ r.loggers[n].propagate = FALSE

C5_Witness ==
    /\ last_call # None
    /\ last_call[1].self.log_level = "DEBUG"
    /\ last_call[1].result.root.level = "DEBUG"
    /\ last_call[1].result.loggers["urllib3"].level = "WARNING"

\* Two successive calls of generate on the same object with the same directory.
TwoCalls ==
    /\ prev_call # None
    /\ last_call # None
    /\ prev_call[1].self = last_call[1].self
    /\ prev_call[1].log_dir = last_call[1].log_dir

FileNameOf(call) == call[1].result.handlers.file.filename
WithoutFileName(call) == [call[1].result EXCEPT !.handlers.file.filename = ""]

\* Whether two clock readings fall in the same second.
SameSecond(a, b) ==
    /\ a.year = b.year /\ a.month = b.month /\ a.day = b.day
    /\ a.hour = b.hour /\ a.minute = b.minute /\ a.second = b.second

\* C10 as stated: the second of two successive calls always names another
\* file than the first, every other entry being identical.
C10_Original ==
    TwoCalls =>
        /\ FileNameOf(prev_call) # FileNameOf(last_call)
        /\ WithoutFileName(prev_call) = WithoutFileName(last_call)

\* C10 as amended: the second call names another file than the first exactly
\* when the clock readings of the two calls do not fall in the same second
\* (within one second both calls name the same file); every other entry of
\* the two mappings is identical.
C10_NewFileUnlessSameSecond ==
    TwoCalls =>
        /\ ~SameSecond(prev_call[1].now, last_call[1].now) =>
                FileNameOf(prev_call) # FileNameOf(last_call)
        /\ SameSecond(prev_call[1].now, last_call[1].now) =>
                FileNameOf(prev_call) = FileNameOf(last_call)
        /\ WithoutFileName(prev_call) = WithoutFileName(last_call)

C10_Witness ==
    /\ TwoCalls
    /\ prev_call[1].now.second = 5
    /\ last_call[1].now.second = 6
    /\ FileNameOf(prev_call) = "/alt/logs/20240102_030405_my_statistical_project.log"
    /\ FileNameOf(last_call) = "/alt/logs/20240102_030406_my_statistical_project.log"

\* C6: with the filesystem and the environment unchanged, any two ProjectPaths
\* objects made with the same root have the same root and the same derived
\* paths, each an existing directory.
C6_ResolutionDeterministic ==
    \A i, j \in DOMAIN instances :
        instances[i].made.root = instances[j].made.root =>
            /\ instances[i].made = instances[j].made
            /\ \A f \in PathFields : instances[i].made[f] \in fs

C6_Witness ==
    /\ Len(instances) = 2
    /\ instances[1].kwargs # instances[2].kwargs
    /\ instances[1].made.root = AltRoot
    /\ instances[2].made.root = AltRoot
    /\ cwd = AltRoot

\* C7 as stated: in every ProjectPaths made, each named subdirectory is the
\* object's own root joined with the field's fixed segment, also when the
\* root is supplied explicitly or through the environment (no other field is
\* supplied).
C7_DerivedFromOwnRoot ==
    DOMAIN environ \subseteq {"root"} =>
        \A i \in DOMAIN instances :
            \A f \in PathFields :
                instances[i].made[f] = instances[i].made.root \o Segment(f)

\* C9 as stated: once made, a ProjectPaths object keeps the root and the
\* derived paths validated at construction, whatever is done with it,
\* assigning to one of its fields included.
C9_ProjectPathsImmutable ==
    (project_paths # None /\ Len(instances) > 0) =>
        project_paths[1] = instances[Len(instances)].made

====
